---- MODULE Spec2Model ----
(***************************************************************************)
(* Model of nova-ecs-editor: the decorator metadata store                  *)
(* (decorators/component.ts), the EditorComponentRegistry singleton and    *)
(* its plugin drivers (plugins/EditorComponentPlugin.ts) and the derived   *)
(* query helpers (utils/ComponentUtils.ts).                                *)
(*                                                                         *)
(* Conventions                                                             *)
(*   - an optional JavaScript value is a sequence of length at most one:   *)
(*     <<>> is undefined, <<v>> is the value v;                            *)
(*   - a Map / WeakMap keyed by component type is a function whose DOMAIN  *)
(*     is the set of keys that are present;                                *)
(*   - an insertion-ordered Map or Set is a sequence in insertion order;   *)
(*   - non-ASCII characters of string literals are spelled by code point   *)
(*     (U+672A U+5206 U+7C7B and U+901A U+7528 are the CJK suffixes of the *)
(*     two default labels in ComponentUtils.ts).                           *)
(***************************************************************************)
EXTENDS Naturals, Integers, Sequences, FiniteSets, TLC

(***************************************************************************)
(* Bounds of the model                                                     *)
(***************************************************************************)
\* total number of @component applications in one behaviour
MaxComponentDecls == 2
\* total number of @property applications in one behaviour
MaxPropertyDecls == 2

\* `order || 999` in ComponentUtils.ts
DefaultOrder == 999

Undefined == <<>>
Some(v) == <<v>>

\* component classes (identity keys)
ComponentTypes == {"A", "B", "C"}

(***************************************************************************)
(* Argument values of the two decorators                                   *)
(***************************************************************************)
CO(n, d, i, c, r, a, o) ==
    [displayName |-> n, description |-> d, icon |-> i, category |-> c,
     removable |-> r, addable |-> a, order |-> o]

PO(t, c, o) == [type |-> t, category |-> c, order |-> o]

Health == CO("Health", Undefined, Undefined, Some("Gameplay"), Undefined, Undefined, Some(2))
Mana == CO("Mana", Some("mana pool"), Some("*"), Some("Gameplay"), Undefined, Undefined, Some(1))

\* options of the component-level runs: categories absent, empty and named,
\* orders absent, 0 and positive, each flag absent, true and false
ComponentOptions ==
    { Health, Mana,
      CO("Health", Undefined, Undefined, Undefined, Undefined, Some(FALSE), Undefined),
      CO("Mana", Undefined, Undefined, Some(""), Some(FALSE), Undefined, Some(0)),
      CO("Health", Undefined, Undefined, Some("Gameplay"), Some(TRUE), Some(TRUE), Some(0)),
      CO("Mana", Undefined, Undefined, Some("Audio"), Undefined, Undefined, Undefined),
      CO("Health", Undefined, Undefined, Undefined, Undefined, Undefined, Some(1)) }

HpRange == PO("range", Some("Stats"), Some(1))

\* options of the property-level runs
PropertyOptions ==
    { HpRange,
      PO("range", Some("Stats"), Some(0)),
      PO("number", Some("Stats"), Undefined),
      PO("boolean", Undefined, Undefined),
      PO("string", Some(""), Some(2)) }

\* plugins: the lists returned by their getComponentTypes()
PluginNames == {"gameplay", "mixed"}
getComponentTypes(p) ==
    IF p = "gameplay" THEN <<"A", "B">> ELSE <<"C", "B", "A">>

(***************************************************************************)
(* State                                                                   *)
(***************************************************************************)
VARIABLES
    componentMetadataMap,     \* WeakMap<ComponentType, ComponentMetadata>
    propertyMetadataMap,      \* WeakMap<ComponentType, Map<string, PropertyMetadata>>
    globalComponentRegistry,  \* Set<ComponentType>, in insertion order
    registrations,            \* EditorComponentRegistry.registrations, in insertion order
    hOptions,                 \* history: options of the latest @component per type
    hRegOptions,              \* history: options the registered descriptor was built from
    hProperties,              \* history: latest @property options per type and field
    nComponentDecls,          \* number of @component applications so far
    nPropertyDecls,           \* number of @property applications so far
    last                      \* the operation executed by the last step

vars == <<componentMetadataMap, propertyMetadataMap, globalComponentRegistry,
          registrations, hOptions, hRegOptions, hProperties, nComponentDecls,
          nPropertyDecls, last>>

Range(s) == {s[i] : i \in 1..Len(s)}

\* f with key k set to v (Map.prototype.set on a keyed store)
MapSet(f, k, v) == [x \in DOMAIN f \cup {k} |-> IF x = k THEN v ELSE f[x]]

\* JavaScript truthiness of an optional string / optional number
TruthyString(o) == o # Undefined /\ o[1] # ""
TruthyNumber(o) == o # Undefined /\ o[1] # 0

(***************************************************************************)
(* decorators/component.ts                                                 *)
(***************************************************************************)
\* componentDecorator with addable as opt-in (`options.addable === true`)
ComponentMetadataOfAddableOptIn(options) ==
    [displayName |-> options.displayName,
     description |-> options.description,
     icon        |-> options.icon,
     category    |-> options.category,
     removable   |-> options.removable # Some(FALSE),
     addable     |-> options.addable = Some(TRUE),
     order       |-> options.order]

\* the ComponentMetadata object built by componentDecorator from its options
ComponentMetadataOf(options) ==
    [displayName |-> options.displayName,
     description |-> options.description,
     icon        |-> options.icon,
     category    |-> options.category,
     removable   |-> options.removable # Some(FALSE),
     addable     |-> options.addable # Some(FALSE),
     order       |-> options.order]

\* a set that keeps the value already stored for a key
WeakMapSetIfAbsent(map, key, value) ==
    IF key \in DOMAIN map THEN map ELSE MapSet(map, key, value)

\* WeakMap.prototype.set
WeakMapSet(map, key, value) == MapSet(map, key, value)

\* an add that appends also when the element is present (Array.push)
SetAddAlways(s, x) == Append(s, x)

\* Set.prototype.add on an insertion-ordered set
SetAdd(s, x) == IF x \in Range(s) THEN s ELSE Append(s, x)

\* Map.prototype.set on an insertion-ordered Map of <<key, value>> entries
RECURSIVE EntriesSet(_, _, _)
EntriesSet(m, k, v) ==
    IF m = <<>> THEN << <<k, v>> >>
    ELSE IF Head(m)[1] = k THEN << <<k, v>> >> \o Tail(m)
    ELSE <<Head(m)>> \o EntriesSet(Tail(m), k, v)

getComponentMetadata(componentType) ==
    IF componentType \in DOMAIN componentMetadataMap
    THEN Some(componentMetadataMap[componentType]) ELSE Undefined

hasComponentMetadata(componentType) ==
    componentType \in DOMAIN componentMetadataMap

\* the Map object getAllPropertyMetadata returns: Some(T) is the Map stored
\* for T in propertyMetadataMap (shared with later @property calls),
\* Undefined is a Map created by `new Map()` for this call only
getAllPropertyMetadata(componentType) ==
    IF componentType \in DOMAIN propertyMetadataMap
    THEN Some(componentType) ELSE Undefined

\* the entries of a Map object, in insertion order
MapEntries(ref) == IF ref = Undefined THEN <<>> ELSE propertyMetadataMap[ref[1]]

getAllRegisteredComponentTypes == globalComponentRegistry

\* @component(options) registering the class with the editor registry as well
componentDecoratorRegistering(target, options) ==
    /\ nComponentDecls < MaxComponentDecls
    /\ componentMetadataMap' =
           WeakMapSet(componentMetadataMap, target, ComponentMetadataOf(options))
    /\ globalComponentRegistry' = SetAdd(globalComponentRegistry, target)
    /\ registrations' =
           LET reg == [componentType |-> target,
                       metadata      |-> ComponentMetadataOf(options),
                       properties    |-> getAllPropertyMetadata(target)]
           IN IF \E i \in 1..Len(registrations) :
                     registrations[i].componentType = target
              THEN [i \in 1..Len(registrations) |->
                       IF registrations[i].componentType = target
                       THEN reg ELSE registrations[i]]
              ELSE Append(registrations, reg)
    /\ hOptions' = MapSet(hOptions, target, options)
    /\ hRegOptions' = MapSet(hRegOptions, target, options)
    /\ nComponentDecls' = nComponentDecls + 1
    /\ last' = [op |-> "component", arg |-> target]
    /\ UNCHANGED <<propertyMetadataMap, hProperties, nPropertyDecls>>

\* @component(options) applied to class target
componentDecorator(target, options) ==
    /\ nComponentDecls < MaxComponentDecls
    /\ componentMetadataMap' =
           WeakMapSet(componentMetadataMap, target, ComponentMetadataOf(options))
    /\ globalComponentRegistry' = SetAdd(globalComponentRegistry, target)
    /\ hOptions' = MapSet(hOptions, target, options)
    /\ nComponentDecls' = nComponentDecls + 1
    /\ last' = [op |-> "component", arg |-> target]
    /\ UNCHANGED <<propertyMetadataMap, registrations, hRegOptions, hProperties,
                   nPropertyDecls>>

\* @property(options) applied to field propertyKey of class componentType
property(componentType, propertyKey, options) ==
    /\ nPropertyDecls < MaxPropertyDecls
    /\ LET propertyMap == IF componentType \in DOMAIN propertyMetadataMap
                          THEN propertyMetadataMap[componentType] ELSE <<>>
       IN propertyMetadataMap' =
              WeakMapSet(propertyMetadataMap, componentType,
                     EntriesSet(propertyMap, propertyKey, options))
    /\ hProperties' =
           MapSet(hProperties, componentType,
                  MapSet(IF componentType \in DOMAIN hProperties
                         THEN hProperties[componentType] ELSE <<>>,
                         propertyKey, options))
    /\ nPropertyDecls' = nPropertyDecls + 1
    /\ last' = [op |-> "property", arg |-> componentType]
    /\ UNCHANGED <<componentMetadataMap, globalComponentRegistry, registrations,
                   hOptions, hRegOptions, nComponentDecls>>

\* clearAllMetadata clearing the editor registry along with the listing
clearAllMetadataAndRegistry ==
    /\ globalComponentRegistry' = <<>>
    /\ registrations' = <<>>
    /\ hRegOptions' = <<>>
    /\ last' = [op |-> "clearAllMetadata", arg |-> ""]
    /\ UNCHANGED <<componentMetadataMap, propertyMetadataMap, hOptions,
                   hProperties, nComponentDecls, nPropertyDecls>>

\* clearAllMetadata purging the descriptors along with the listing
clearAllMetadataAndDescriptors ==
    /\ globalComponentRegistry' = <<>>
    /\ componentMetadataMap' = <<>>
    /\ last' = [op |-> "clearAllMetadata", arg |-> ""]
    /\ UNCHANGED <<propertyMetadataMap, registrations, hOptions, hRegOptions,
                   hProperties, nComponentDecls, nPropertyDecls>>

clearAllMetadata ==
    /\ globalComponentRegistry' = <<>>
    /\ last' = [op |-> "clearAllMetadata", arg |-> ""]
    /\ UNCHANGED <<componentMetadataMap, propertyMetadataMap, registrations,
                   hOptions, hRegOptions, hProperties, nComponentDecls,
                   nPropertyDecls>>

(***************************************************************************)
(* plugins/EditorComponentPlugin.ts : EditorComponentRegistry              *)
(***************************************************************************)
\* Map.prototype.set as delete followed by set: an existing key moves to the
\* end of the Map
RegistrationsSetMoveToEnd(regs, reg) ==
    LET Others(r) == r.componentType # reg.componentType
    IN SelectSeq(regs, Others) \o <<reg>>

\* Map.prototype.set on the registrations Map (keyed by componentType)
RECURSIVE RegistrationsSet(_, _)
RegistrationsSet(regs, reg) ==
    IF regs = <<>> THEN <<reg>>
    ELSE IF Head(regs).componentType = reg.componentType THEN <<reg>> \o Tail(regs)
    ELSE <<Head(regs)>> \o RegistrationsSet(Tail(regs), reg)

\* register storing a Map of its own instead of the stored property Map
registerFreshMap(regs, componentType) ==
    LET metadata == getComponentMetadata(componentType)
    IN IF metadata # Undefined
       THEN RegistrationsSet(regs, [componentType |-> componentType,
                                    metadata      |-> metadata[1],
                                    properties    |-> Undefined])
       ELSE regs

\* register without the `if (metadata)` guard, falling back to a descriptor
\* named after the class
registerUnguarded(regs, componentType) ==
    LET metadata   == getComponentMetadata(componentType)
        properties == getAllPropertyMetadata(componentType)
    IN RegistrationsSet(regs,
           [componentType |-> componentType,
            metadata      |-> IF metadata # Undefined THEN metadata[1]
                              ELSE ComponentMetadataOf(
                                       CO(componentType, Undefined, Undefined,
                                          Undefined, Undefined, Undefined, Undefined)),
            properties    |-> properties])

\* the registrations Map after register(componentType) on the Map regs
register(regs, componentType) ==
    LET metadata   == getComponentMetadata(componentType)
        properties == getAllPropertyMetadata(componentType)
    IN IF metadata # Undefined
       THEN RegistrationsSet(regs, [componentType |-> componentType,
                                    metadata      |-> metadata[1],
                                    properties    |-> properties])
       ELSE regs

\* the loop ending at the first type that has no descriptor
RECURSIVE registerEachAborting(_, _)
registerEachAborting(regs, componentTypes) ==
    IF componentTypes = <<>> THEN regs
    ELSE IF ~hasComponentMetadata(Head(componentTypes)) THEN regs
    ELSE registerEachAborting(register(regs, Head(componentTypes)),
                              Tail(componentTypes))

\* the registrations Map after `for (const t of componentTypes) register(t)`
RECURSIVE registerEach(_, _)
registerEach(regs, componentTypes) ==
    IF componentTypes = <<>> THEN regs
    ELSE registerEach(register(regs, Head(componentTypes)), Tail(componentTypes))

RegisteredTypes(regs) == {regs[i].componentType : i \in 1..Len(regs)}

\* history: the options behind each registered descriptor after registering
\* the types of the set called
RegOptionsAfter(regs, called) ==
    [t \in RegisteredTypes(regs) |->
        IF t \in called /\ hasComponentMetadata(t) THEN hOptions[t]
        ELSE IF t \in DOMAIN hRegOptions THEN hRegOptions[t]
        ELSE CO("", Undefined, Undefined, Undefined, Undefined, Undefined, Undefined)]

get(componentType) ==
    LET found == {i \in 1..Len(registrations) :
                     registrations[i].componentType = componentType}
    IN IF found = {} THEN Undefined
       ELSE Some(registrations[CHOOSE i \in found : TRUE])

has(componentType) == componentType \in RegisteredTypes(registrations)

getAll == registrations

Addable(reg) == reg.metadata.addable # FALSE
getAddable == SelectSeq(getAll, Addable)

(***************************************************************************)
(* The `.sort((a, b) => (a.order || 999) - (b.order || 999))` of               *)
(* utils/ComponentUtils.ts                                                 *)
(***************************************************************************)
\* `order || 999`
OrderOrDefault(order) == IF TruthyNumber(order) THEN order[1] ELSE DefaultOrder

\* Array.prototype.sort((a, b) => key(a) - key(b)) on a sequence of
\* <<key, item>> pairs: a stable sort (ES2019), here by insertion
RECURSIVE InsertByKey(_, _)
InsertByKey(sorted, x) ==
    IF sorted = <<>> THEN <<x>>
    ELSE IF x[1] < Head(sorted)[1] THEN <<x>> \o sorted
    ELSE <<Head(sorted)>> \o InsertByKey(Tail(sorted), x)

RECURSIVE SortByKey(_)
SortByKey(pairs) ==
    IF pairs = <<>> THEN <<>>
    ELSE InsertByKey(SortByKey(SubSeq(pairs, 1, Len(pairs) - 1)), pairs[Len(pairs)])

\* regs sorted by `metadata.order || 999`
SortRegistrations(regs) ==
    LET sorted == SortByKey([i \in 1..Len(regs) |->
                                <<OrderOrDefault(regs[i].metadata.order), regs[i]>>])
    IN [i \in 1..Len(sorted) |-> sorted[i][2]]

\* Map entries sorted by `entry[1].order || 999`
SortEntries(entries) ==
    LET sorted == SortByKey([i \in 1..Len(entries) |->
                                <<OrderOrDefault(entries[i][2].order), entries[i]>>])
    IN [i \in 1..Len(sorted) |-> sorted[i][2]]

\* getByCategory sorting its result by order
getByCategorySorted(category) ==
    LET Matches(reg) == reg.metadata.category = Some(category)
    IN SortRegistrations(SelectSeq(registrations, Matches))

getByCategory(category) ==
    LET Matches(reg) == reg.metadata.category = Some(category)
    IN SelectSeq(getAll, Matches)

Register(componentType) ==
    /\ registrations' = register(registrations, componentType)
    /\ hRegOptions' = RegOptionsAfter(registrations', {componentType})
    /\ last' = [op |-> "register", arg |-> componentType]
    /\ UNCHANGED <<componentMetadataMap, propertyMetadataMap,
                   globalComponentRegistry, hOptions, hProperties,
                   nComponentDecls, nPropertyDecls>>

clear ==
    /\ registrations' = <<>>
    /\ hRegOptions' = <<>>
    /\ last' = [op |-> "clear", arg |-> ""]
    /\ UNCHANGED <<componentMetadataMap, propertyMetadataMap,
                   globalComponentRegistry, hOptions, hProperties,
                   nComponentDecls, nPropertyDecls>>

\* EditorComponentPlugin.install of plugin p
install(p) ==
    /\ registrations' = registerEach(registrations, getComponentTypes(p))
    /\ hRegOptions' = RegOptionsAfter(registrations', Range(getComponentTypes(p)))
    /\ last' = [op |-> "install", arg |-> p]
    /\ UNCHANGED <<componentMetadataMap, propertyMetadataMap,
                   globalComponentRegistry, hOptions, hProperties,
                   nComponentDecls, nPropertyDecls>>

\* EditorComponentPlugin.uninstall of plugin p: logs only
uninstall(p) ==
    /\ last' = [op |-> "uninstall", arg |-> p]
    /\ UNCHANGED <<componentMetadataMap, propertyMetadataMap,
                   globalComponentRegistry, registrations, hOptions,
                   hRegOptions, hProperties, nComponentDecls, nPropertyDecls>>

\* EditorComponentPlugin.update of plugin p: empty body
update(p) ==
    /\ last' = [op |-> "update", arg |-> p]
    /\ UNCHANGED <<componentMetadataMap, propertyMetadataMap,
                   globalComponentRegistry, registrations, hOptions,
                   hRegOptions, hProperties, nComponentDecls, nPropertyDecls>>

\* discoverAndRegisterComponents registering only the listed types that have
\* no Registration yet
discoverAndRegisterNewComponents ==
    LET NotYet(t) == ~has(t)
        componentTypes == SelectSeq(getAllRegisteredComponentTypes, NotYet)
    IN /\ registrations' = registerEach(registrations, componentTypes)
       /\ hRegOptions' = RegOptionsAfter(registrations', Range(componentTypes))
       /\ last' = [op |-> "discoverAndRegisterComponents", arg |-> ""]
       /\ UNCHANGED <<componentMetadataMap, propertyMetadataMap,
                      globalComponentRegistry, hOptions, hProperties,
                      nComponentDecls, nPropertyDecls>>

discoverAndRegisterComponents ==
    /\ registrations' = registerEach(registrations, getAllRegisteredComponentTypes)
    /\ hRegOptions' = RegOptionsAfter(registrations',
                                      Range(getAllRegisteredComponentTypes))
    /\ last' = [op |-> "discoverAndRegisterComponents", arg |-> ""]
    /\ UNCHANGED <<componentMetadataMap, propertyMetadataMap,
                   globalComponentRegistry, hOptions, hProperties,
                   nComponentDecls, nPropertyDecls>>

\* the loop of getStatistics over the registrations still to visit:
\* <<categories, addableCount>> at its end
RECURSIVE StatisticsLoop(_, _, _)
StatisticsLoop(regs, categories, addableCount) ==
    IF regs = <<>> THEN <<categories, addableCount>>
    ELSE LET registration == Head(regs)
             category == registration.metadata.category
         IN StatisticsLoop(
                Tail(regs),
                IF TruthyString(category)
                THEN MapSet(categories, category[1],
                            (IF category[1] \in DOMAIN categories
                             THEN categories[category[1]] ELSE 0) + 1)
                ELSE categories,
                IF registration.metadata.addable # FALSE
                THEN addableCount + 1 ELSE addableCount)

\* getStatistics tallying Registrations without category under the default
\* label of the grouping helpers
getStatisticsWithDefaultLabel ==
    LET result == StatisticsLoop(registrations, <<>>, 0)
        Uncategorized(reg) == ~TruthyString(reg.metadata.category)
        n == Len(SelectSeq(registrations, Uncategorized))
    IN [totalComponents       |-> Len(registrations),
        addableComponents     |-> result[2],
        categorizedComponents |->
            IF n = 0 THEN result[1]
            ELSE MapSet(result[1], "Uncategorized U+672A U+5206 U+7C7B", n)]

getStatistics ==
    LET result == StatisticsLoop(registrations, <<>>, 0)
    IN [totalComponents       |-> Len(registrations),
        addableComponents     |-> result[2],
        categorizedComponents |-> result[1]]

(***************************************************************************)
(* utils/ComponentUtils.ts                                                 *)
(***************************************************************************)
\* 'Uncategorized ' followed by U+672A U+5206 U+7C7B
UncategorizedLabel == "Uncategorized U+672A U+5206 U+7C7B"
\* 'General ' followed by U+901A U+7528
GeneralLabel == "General U+901A U+7528"

\* `category ?? 'Uncategorized ...'`: an empty category kept as a key
CategoryOrDefaultNullish(category) ==
    IF category # Undefined THEN category[1] ELSE UncategorizedLabel

\* `category || 'Uncategorized ...'`
CategoryOrDefault(category) ==
    IF TruthyString(category) THEN category[1] ELSE UncategorizedLabel

\* `category ?? 'General ...'`: an empty category kept as a key
PropertyCategoryOrDefaultNullish(category) ==
    IF category # Undefined THEN category[1] ELSE GeneralLabel

\* `category || 'General ...'`
PropertyCategoryOrDefault(category) ==
    IF TruthyString(category) THEN category[1] ELSE GeneralLabel

getAvailableComponentTypes ==
    LET sorted == SortRegistrations(getAddable)
    IN [i \in 1..Len(sorted) |->
           [componentType |-> sorted[i].componentType, registration |-> sorted[i]]]

getComponentRegistration(componentType) == get(componentType)

isComponentRegistered(componentType) == has(componentType)

\* Record<string, ComponentRegistration[]>: a function on the keys present
getComponentsByCategory ==
    LET components == getAll
        KeyOf(reg) == CategoryOrDefault(reg.metadata.category)
        keys == {KeyOf(components[i]) : i \in 1..Len(components)}
    IN [category \in keys |->
           LET InGroup(reg) == KeyOf(reg) = category
           IN SortRegistrations(SelectSeq(components, InGroup))]

\* canRemoveComponent with `=== true` in place of `!== false`
canRemoveComponentStrict(componentType) ==
    LET registration == getComponentRegistration(componentType)
    IN IF registration = Undefined THEN FALSE
       ELSE registration[1].metadata.removable = TRUE

canRemoveComponent(componentType) ==
    LET registration == getComponentRegistration(componentType)
    IN IF registration = Undefined THEN TRUE
       ELSE registration[1].metadata.removable # FALSE

canAddComponent(componentType) ==
    LET registration == getComponentRegistration(componentType)
    IN IF registration = Undefined THEN TRUE
       ELSE registration[1].metadata.addable # FALSE

\* ComponentUtils.getAllPropertyMetadata: the entries of the registration's Map
getAllPropertyMetadataOfRegistration(componentType) ==
    LET registration == getComponentRegistration(componentType)
    IN IF registration = Undefined THEN <<>>
       ELSE MapEntries(registration[1].properties)

\* Record<string, Array<[string, PropertyMetadata]>>
getPropertiesByCategory(componentType) ==
    LET properties == getAllPropertyMetadataOfRegistration(componentType)
        KeyOf(entry) == PropertyCategoryOrDefault(entry[2].category)
        keys == {KeyOf(properties[i]) : i \in 1..Len(properties)}
    IN [category \in keys |->
           LET InGroup(entry) == KeyOf(entry) = category
           IN SortEntries(SelectSeq(properties, InGroup))]

getRegistryStatistics ==
    LET stats == getStatistics
        components == getAll
        Removable(reg) == reg.metadata.removable # FALSE
        KeyOf(reg) == CategoryOrDefault(reg.metadata.category)
        keys == {KeyOf(components[i]) : i \in 1..Len(components)}
    IN [totalComponents       |-> stats.totalComponents,
        addableComponents     |-> stats.addableComponents,
        categorizedComponents |-> stats.categorizedComponents,
        removableComponents   |-> Len(SelectSeq(components, Removable)),
        componentsByCategory  |->
            [category \in keys |->
                LET InGroup(reg) == KeyOf(reg) = category
                    group == SelectSeq(components, InGroup)
                IN [i \in 1..Len(group) |-> group[i].metadata.displayName]]]

(***************************************************************************)
(* Specification                                                           *)
(***************************************************************************)
Init ==
    /\ componentMetadataMap = <<>>
    /\ propertyMetadataMap = <<>>
    /\ globalComponentRegistry = <<>>
    /\ registrations = <<>>
    /\ hOptions = <<>>
    /\ hRegOptions = <<>>
    /\ hProperties = <<>>
    /\ nComponentDecls = 0
    /\ nPropertyDecls = 0
    /\ last = [op |-> "init", arg |-> ""]

\* Component-level runs: classes A and B are decorated with any of
\* ComponentOptions; class C carries one decorated field and no @component.
DeclareComponent ==
    \E target \in {"A", "B"}, options \in ComponentOptions :
        componentDecorator(target, options)

DeclareProperty == property("C", "hp", HpRange)

RegisterType == \E componentType \in ComponentTypes : Register(componentType)

InstallPlugin == \E p \in PluginNames : install(p)

UninstallPlugin == \E p \in PluginNames : uninstall(p)

UpdatePlugin == \E p \in PluginNames : update(p)

Next ==
    \/ DeclareComponent
    \/ DeclareProperty
    \/ RegisterType
    \/ clear
    \/ clearAllMetadata
    \/ InstallPlugin
    \/ UninstallPlugin
    \/ UpdatePlugin
    \/ discoverAndRegisterComponents

Spec == Init /\ [][Next]_vars

\* Property-level runs: class A is decorated with Health or Mana and its two
\* fields with any of PropertyOptions.
DeclareComponentA ==
    \E options \in {Health, Mana} : componentDecorator("A", options)

DeclarePropertyA ==
    \E propertyKey \in {"hp", "mp"}, options \in PropertyOptions :
        property("A", propertyKey, options)

RegisterTypeAB == \E componentType \in {"A", "B"} : Register(componentType)

NextProperties ==
    \/ DeclareComponentA
    \/ DeclarePropertyA
    \/ RegisterTypeAB
    \/ clear
    \/ clearAllMetadata
    \/ install("gameplay")
    \/ uninstall("gameplay")
    \/ discoverAndRegisterComponents

SpecProperties == Init /\ [][NextProperties]_vars

TypeOK ==
    /\ DOMAIN componentMetadataMap \subseteq ComponentTypes
    /\ DOMAIN propertyMetadataMap \subseteq ComponentTypes
    /\ Range(globalComponentRegistry) \subseteq ComponentTypes
    /\ RegisteredTypes(registrations) \subseteq ComponentTypes
    /\ nComponentDecls \in 0..MaxComponentDecls
    /\ nPropertyDecls \in 0..MaxPropertyDecls

(***************************************************************************)
(* Properties                                                              *)
(***************************************************************************)
\* the field -> options mapping declared on a type so far (history)
DeclaredProperties(componentType) ==
    IF componentType \in DOMAIN hProperties THEN hProperties[componentType] ELSE <<>>

\* C1: right after register(T) for a T that has a descriptor, get(T) is a
\* Registration whose properties hold exactly the fields declared on T so far,
\* each with the options of its most recent declaration.
C1_RegisterCollectsDeclaredProperties ==
    (last.op = "register" /\ hasComponentMetadata(last.arg)) =>
        /\ get(last.arg) # Undefined
        /\ LET entries  == MapEntries(get(last.arg)[1].properties)
               declared == DeclaredProperties(last.arg)
           IN /\ {entries[i][1] : i \in 1..Len(entries)} = DOMAIN declared
              /\ Len(entries) = Cardinality(DOMAIN declared)
              /\ \A i \in 1..Len(entries) : entries[i][2] = declared[entries[i][1]]

\* C1 witness: A was registered after one of its fields was declared twice
C1_Witness ==
    /\ last = [op |-> "register", arg |-> "A"]
    /\ has("A")
    /\ nPropertyDecls = 2
    /\ Len(MapEntries(get("A")[1].properties)) = 1

\* C2: register(T) for a T without descriptor changes no Registration, also
\* when T has decorated fields; a type without descriptor is never surfaced
\* by get, has or getAll.
C2_RegisterWithoutDescriptorIsNoOp ==
    /\ [][(last'.op = "register" /\ ~hasComponentMetadata(last'.arg))
             => registrations' = registrations]_vars
    /\ [](\A t \in ComponentTypes :
             ~hasComponentMetadata(t) =>
                 /\ ~has(t)
                 /\ get(t) = Undefined
                 /\ \A i \in 1..Len(getAll) : getAll[i].componentType # t)

\* C2 witness: register(C) was called for the class C that has a decorated
\* field and no @component, while another class is registered
C2_Witness ==
    /\ last = [op |-> "register", arg |-> "C"]
    /\ "C" \in DOMAIN propertyMetadataMap
    /\ ~hasComponentMetadata("C")
    /\ ~has("C")
    /\ Len(getAll) > 0

\* position of a registered type in getAll()
PositionInAll(componentType) ==
    CHOOSE i \in 1..Len(getAll) : getAll[i].componentType = componentType

\* the order value as the claims read it: only a missing order is 999
ClaimedOrder(order) == IF order = Undefined THEN DefaultOrder ELSE order[1]

\* regs is in ascending ClaimedOrder, entries of equal order in getAll() order
SortedAsClaimed(regs) ==
    \A i, j \in 1..Len(regs) :
        i < j =>
            \/ ClaimedOrder(regs[i].metadata.order) < ClaimedOrder(regs[j].metadata.order)
            \/ /\ ClaimedOrder(regs[i].metadata.order) = ClaimedOrder(regs[j].metadata.order)
               /\ PositionInAll(regs[i].componentType) < PositionInAll(regs[j].componentType)

QueryCategories == {"", "Gameplay", "Audio", "Physics", UncategorizedLabel}

\* the registered types whose descriptor was declared with category c (history)
DeclaredInCategory(c) ==
    {t \in RegisteredTypes(registrations) : hRegOptions[t].category = Some(c)}

\* getByCategory(c) holds exactly the Registrations declared with category c
ExactlyTheCategory(c) ==
    LET result == getByCategory(c)
    IN /\ {result[i].componentType : i \in 1..Len(result)} = DeclaredInCategory(c)
       /\ \A i \in 1..Len(result) : Some(result[i]) = get(result[i].componentType)

\* C3 as claimed: getByCategory(c) holds exactly the Registrations of
\* category c, in ascending order value, ties in registration order.
C3_Original ==
    \A c \in QueryCategories :
        ExactlyTheCategory(c) /\ SortedAsClaimed(getByCategory(c))

\* C3 as amended: getByCategory(c) holds exactly the Registrations of
\* category c in registration (getAll) order, whatever their order values;
\* registering A (Gameplay, order 2) then B (Gameplay, order 1) gives [A, B].
C3_GetByCategoryKeepsRegistrationOrder ==
    \A c \in QueryCategories :
        /\ ExactlyTheCategory(c)
        /\ LET result == getByCategory(c)
           IN \A i, j \in 1..Len(result) :
                  i < j => PositionInAll(result[i].componentType)
                               < PositionInAll(result[j].componentType)

\* C3 witness: A (Gameplay, order 2) was registered, then B (Gameplay, order 1)
C3_Witness ==
    /\ Len(getAll) = 2
    /\ getAll[1].componentType = "A" /\ hRegOptions["A"] = Health
    /\ getAll[2].componentType = "B" /\ hRegOptions["B"] = Mana
    /\ last = [op |-> "register", arg |-> "B"]
    /\ getByCategory("Gameplay") = getAll

\* C4 as claimed: every list of the sorting helpers is in ascending order
\* value where only a missing order counts as 999 (an explicit 0 sorts
\* first), entries of equal order keeping their prior relative order.
C4_Original ==
    /\ SortedAsClaimed([i \in 1..Len(getAvailableComponentTypes) |->
                           getAvailableComponentTypes[i].registration])
    /\ \A category \in DOMAIN getComponentsByCategory :
           SortedAsClaimed(getComponentsByCategory[category])
    /\ \A t \in ComponentTypes :
           \A category \in DOMAIN getPropertiesByCategory(t) :
               LET group == getPropertiesByCategory(t)[category]
               IN \A i, j \in 1..Len(group) :
                      i < j => ClaimedOrder(group[i][2].order)
                                   <= ClaimedOrder(group[j][2].order)

\* the registered descriptor was declared without `addable: false` (history)
DeclaredAddable(reg) == hRegOptions[reg.componentType].addable # Some(FALSE)

\* C5: getAddable() is the subsequence of getAll() of the Registrations whose
\* descriptor was declared with addable omitted or true.
C5_GetAddableExcludesDeclaredNotAddable ==
    getAddable = SelectSeq(getAll, DeclaredAddable)

\* C5 witness: two Registrations, one declared with addable omitted and
\* included, one declared addable: false and excluded
C5_Witness ==
    /\ Len(getAll) = 2
    /\ Len(getAddable) = 1
    /\ hRegOptions[getAddable[1].componentType].addable = Undefined
    /\ \E i \in 1..2 : hRegOptions[getAll[i].componentType].addable = Some(FALSE)

\* C6: canRemoveComponent(T) / canAddComponent(T) is false exactly when T is
\* registered from a declaration with removable: false / addable: false.
C6_CanRemoveCanAddDefaultTrue ==
    \A t \in ComponentTypes :
        /\ canRemoveComponent(t) = ~(has(t) /\ hRegOptions[t].removable = Some(FALSE))
        /\ canAddComponent(t) = ~(has(t) /\ hRegOptions[t].addable = Some(FALSE))

\* C6 witness: an unregistered type, a type registered without the removable
\* flag and a type registered with removable: false
C6_Witness ==
    /\ \E t \in ComponentTypes : ~has(t) /\ canRemoveComponent(t)
    /\ \E t \in ComponentTypes :
           has(t) /\ hRegOptions[t].removable = Undefined /\ canRemoveComponent(t)
    /\ \E t \in ComponentTypes :
           has(t) /\ hRegOptions[t].removable = Some(FALSE) /\ ~canRemoveComponent(t)

\* the descriptor of t holds the fields of its latest declaration and nothing
\* else: each optional field as given (absent when not given), each flag
\* true unless declared false
DescriptorIsLatestDeclaration(t) ==
    /\ hasComponentMetadata(t)
    /\ LET m == getComponentMetadata(t)[1]
           o == hOptions[t]
       IN /\ m.displayName = o.displayName
          /\ m.description = o.description
          /\ m.icon = o.icon
          /\ m.category = o.category
          /\ m.order = o.order
          /\ m.removable = (o.removable # Some(FALSE))
          /\ m.addable = (o.addable # Some(FALSE))

Occurrences(seq, x) == Cardinality({i \in 1..Len(seq) : seq[i] = x})

\* C7: the descriptor of a declared type is the one built from its latest
\* declaration alone, the type just declared is listed exactly once and
\* getAllRegisteredComponentTypes() never holds a duplicate.
C7_RedeclarationReplacesWithoutDuplicate ==
    /\ \A t \in DOMAIN hOptions : DescriptorIsLatestDeclaration(t)
    /\ \A t \in ComponentTypes : Occurrences(getAllRegisteredComponentTypes, t) <= 1
    /\ last.op = "component" =>
           Occurrences(getAllRegisteredComponentTypes, last.arg) = 1

\* C7 witness: A was declared as Mana (description and icon given),
\* registered, and has just been declared again as Health
C7_Witness ==
    /\ last = [op |-> "component", arg |-> "A"]
    /\ nComponentDecls = 2
    /\ has("A") /\ get("A")[1].metadata.displayName = "Mana"
    /\ get("A")[1].metadata.description # Undefined
    /\ hOptions["A"] = Health
    /\ getAllRegisteredComponentTypes = <<"A">>

\* C8: a type that was declared has a descriptor with the displayName of its
\* latest declaration; a type never declared (also one with decorated fields
\* only) has none.
C8_MetadataPresentIffDeclared ==
    \A t \in ComponentTypes :
        IF t \in DOMAIN hOptions
        THEN /\ hasComponentMetadata(t)
             /\ getComponentMetadata(t) # Undefined
             /\ getComponentMetadata(t)[1].displayName = hOptions[t].displayName
        ELSE /\ ~hasComponentMetadata(t)
             /\ getComponentMetadata(t) = Undefined

\* C8 witness: A has just been declared, B never was, C has a decorated
\* field and no @component
C8_Witness ==
    /\ last = [op |-> "component", arg |-> "A"]
    /\ hasComponentMetadata("A")
    /\ ~hasComponentMetadata("B")
    /\ "C" \in DOMAIN propertyMetadataMap /\ ~hasComponentMetadata("C")

RECURSIVE SumOver(_, _)
SumOver(f, keys) ==
    IF keys = {} THEN 0
    ELSE LET k == CHOOSE x \in keys : TRUE IN f[k] + SumOver(f, keys \ {k})

\* the display names of the Registrations satisfying Test, in getAll() order
DisplayNames(Test(_)) ==
    LET group == SelectSeq(getAll, Test)
    IN [i \in 1..Len(group) |-> group[i].metadata.displayName]

PartitionsByKey(KeyOf(_)) ==
    LET grouped == getComponentsByCategory
    IN /\ \A i \in 1..Len(getAll) :
              /\ KeyOf(getAll[i].metadata.category) \in DOMAIN grouped
              /\ \A k \in DOMAIN grouped :
                     Occurrences(grouped[k], getAll[i]) =
                         IF k = KeyOf(getAll[i].metadata.category) THEN 1 ELSE 0
       /\ \A k \in DOMAIN grouped :
              /\ grouped[k] # <<>>
              /\ \A i \in 1..Len(grouped[k]) : Some(grouped[k][i]) = get(grouped[k][i].componentType)

ClaimedGroupKey(category) ==
    IF category # Undefined THEN category[1] ELSE "Uncategorized"

AmendedGroupKey(category) ==
    IF category # Undefined /\ category # Some("") THEN category[1]
    ELSE "Uncategorized U+672A U+5206 U+7C7B"

DeclaredEntries(componentType) ==
    {<<f, DeclaredProperties(componentType)[f]>> :
        f \in DOMAIN DeclaredProperties(componentType)}

\* the group keys under which a pair appears in getPropertiesByCategory(T)
GroupsHolding(componentType, entry) ==
    {k \in DOMAIN getPropertiesByCategory(componentType) :
        Occurrences(getPropertiesByCategory(componentType)[k], entry) > 0}

ClaimedPropertyGroupKey(category) ==
    IF category # Undefined THEN category[1] ELSE "General"

AmendedPropertyGroupKey(category) ==
    IF category # Undefined /\ category # Some("") THEN category[1]
    ELSE "General U+901A U+7528"

C12_TwoClearsEmptyTheirOwnStore ==
    /\ [][last'.op = "clearAllMetadata" =>
             /\ getAllRegisteredComponentTypes' = <<>>
             /\ UNCHANGED <<registrations, componentMetadataMap,
                            propertyMetadataMap>>]_vars
    /\ [][last'.op = "clear" =>
             /\ getAll' = <<>>
             /\ UNCHANGED <<globalComponentRegistry, componentMetadataMap,
                            propertyMetadataMap>>]_vars
    /\ [][(last.op = "clearAllMetadata" /\ last'.op = "clear") =>
             /\ getAllRegisteredComponentTypes' = <<>>
             /\ getAll' = <<>>
             /\ \A t \in ComponentTypes : ~has(t)']_vars

\* C12 witness: A and B were declared, the listing was emptied and then the
\* registry was cleared: both are empty while the descriptors are still there
C12_Witness ==
    /\ last.op = "clear"
    /\ getAllRegisteredComponentTypes = <<>>
    /\ getAll = <<>>
    /\ hasComponentMetadata("A") /\ hasComponentMetadata("B")

\* the types to which @component was ever applied (history)
EverDeclared == DOMAIN hOptions

\* calling discoverAndRegisterComponents() in this state a second time would
\* leave the registrations of the first call as they are
DiscoverTwiceIsDiscoverOnce ==
    LET once == registerEach(registrations, getAllRegisteredComponentTypes)
    IN registerEach(once, getAllRegisteredComponentTypes) = once

\* C13 as claimed: after discoverAndRegisterComponents() has(T) is true for
\* every type T ever declared with @component, and calling it twice is the
\* same as calling it once.
C13_Original ==
    /\ last.op = "discoverAndRegisterComponents" =>
           \A t \in EverDeclared : has(t)
    /\ DiscoverTwiceIsDiscoverOnce

\* C13 as amended: after discoverAndRegisterComponents() every type listed by
\* getAllRegisteredComponentTypes(), that is every type whose @component was
\* applied since the last clearAllMetadata(), is registered with its current
\* descriptor, whether or not a plugin lists it; and calling it twice in a
\* row leaves the registrations (contents and getAll() order) the same as
\* calling it once.
C13_DiscoverRegistersListedTypes ==
    /\ last.op = "discoverAndRegisterComponents" =>
           \A t \in Range(getAllRegisteredComponentTypes) :
               /\ has(t)
               /\ Some(get(t)[1].metadata) = getComponentMetadata(t)
               /\ hRegOptions[t] = hOptions[t]
    /\ DiscoverTwiceIsDiscoverOnce

\* C13 witness: discoverAndRegisterComponents() ran with B listed before A
\* and no plugin installed before: both are registered
C13_Witness ==
    /\ last.op = "discoverAndRegisterComponents"
    /\ getAllRegisteredComponentTypes = <<"B", "A">>
    /\ has("A") /\ has("B")
    /\ Len(getAll) = 2

\* C14 as claimed: a property declaration or a component re-declaration
\* leaves get(T), its metadata and the entries of its properties mapping
\* unchanged for every T, and right after register(T) the Registration holds
\* the current descriptor and the properties declared so far.
C14_Original ==
    /\ [][last'.op \in {"property", "component"} =>
             \A t \in ComponentTypes :
                 /\ get(t)' = get(t)
                 /\ getAllPropertyMetadataOfRegistration(t)' =
                        getAllPropertyMetadataOfRegistration(t)]_vars
    /\ [](\A t \in ComponentTypes :
             (last = [op |-> "register", arg |-> t] /\ hasComponentMetadata(t)) =>
                 /\ has(t)
                 /\ Some(get(t)[1].metadata) = getComponentMetadata(t)
                 /\ get(t)[1].properties = getAllPropertyMetadata(t))

\* the types of the Registrations of getAll(), in its order
TypesOf(regs) == [i \in 1..Len(regs) |-> regs[i].componentType]

\* the types passed to register by the step just taken, in call order
RegisterCalls ==
    CASE last'.op = "register" -> <<last'.arg>>
      [] last'.op = "install" -> getComponentTypes(last'.arg)
      [] last'.op = "discoverAndRegisterComponents" -> getAllRegisteredComponentTypes
      [] OTHER -> <<>>

\* C15: getAll() holds exactly one Registration per registered type; every
\* step other than clear() keeps the types already registered at their
\* positions and appends the types newly registered in the order of the
\* register calls, whatever the declaration order; a type registered again is
\* replaced in place by the Registration of its current descriptor.
C15_GetAllInFirstRegistrationOrder ==
    /\ [](\A i, j \in 1..Len(getAll) :
             getAll[i].componentType = getAll[j].componentType => i = j)
    /\ [](\A t \in ComponentTypes :
             has(t) <=> Occurrences(TypesOf(getAll), t) = 1)
    /\ [][last'.op # "clear" =>
             LET New(t) == ~has(t) /\ hasComponentMetadata(t)
             IN TypesOf(getAll') = TypesOf(getAll) \o SelectSeq(RegisterCalls, New)]_vars
    /\ [](\A t \in ComponentTypes :
             (last = [op |-> "register", arg |-> t] /\ hasComponentMetadata(t)) =>
                 /\ Some(get(t)[1].metadata) = getComponentMetadata(t)
                 /\ hRegOptions[t] = hOptions[t])

\* C15 witness: B was declared before A, A was registered before B, and
\* register(A) was called again: A is still first of the two entries
C15_Witness ==
    /\ getAllRegisteredComponentTypes = <<"B", "A">>
    /\ TypesOf(getAll) = <<"A", "B">>
    /\ last = [op |-> "register", arg |-> "A"]

\* C16: right after install of a plugin, every type of its getComponentTypes()
\* list that has a descriptor is registered with that descriptor and the
\* listed types without descriptor are not; the step keeps the types already
\* registered at their positions and appends the newly registered ones in
\* list order; uninstall and update leave the registrations unchanged.
C16_InstallRegistersListedTypes ==
    /\ [](last.op = "install" =>
             \A t \in Range(getComponentTypes(last.arg)) :
                 /\ has(t) <=> hasComponentMetadata(t)
                 /\ has(t) => /\ Some(get(t)[1].metadata) = getComponentMetadata(t)
                              /\ get(t)[1].properties = getAllPropertyMetadata(t)
                              /\ hRegOptions[t] = hOptions[t])
    /\ [][last'.op = "install" =>
             LET New(t) == ~has(t) /\ hasComponentMetadata(t)
             IN TypesOf(getAll') =
                    TypesOf(getAll) \o SelectSeq(getComponentTypes(last'.arg), New)]_vars
    /\ [][last'.op \in {"uninstall", "update"} => getAll' = getAll]_vars

\* C16 witness: the plugin listing C, B, A was installed on an empty registry
\* or one holding B and A in that order; C has a decorated field and no
\* descriptor and is skipped, B and A are registered
C16_Witness ==
    /\ last = [op |-> "install", arg |-> "mixed"]
    /\ "C" \in DOMAIN propertyMetadataMap
    /\ ~has("C")
    /\ TypesOf(getAll) = <<"B", "A">>

\* the entries of the property Map kept for a type, <<>> when there is none
StoredProperties(componentType) == MapEntries(getAllPropertyMetadata(componentType))

\* C17: a @component on T changes only T's descriptor and adds T to the
\* declared-types listing; a @property on T changes only T's property Map;
\* both leave the descriptors and property Maps of every other type and the
\* Registrations (none added, removed or replaced) as they are; has(T)
\* becomes true only by a step calling register(T) (register, install or
\* discoverAndRegisterComponents) while T has a descriptor, and stays true
\* only until clear().
C17_DeclarationNeverRegisters ==
    /\ [][last'.op = "component" =>
             /\ \A u \in ComponentTypes \ {last'.arg} :
                    getComponentMetadata(u)' = getComponentMetadata(u)
             /\ propertyMetadataMap' = propertyMetadataMap
             /\ Range(getAllRegisteredComponentTypes') =
                    Range(getAllRegisteredComponentTypes) \cup {last'.arg}
             /\ last'.arg \in DOMAIN componentMetadataMap'
             /\ registrations' = registrations]_vars
    /\ [][last'.op = "property" =>
             /\ \A u \in ComponentTypes \ {last'.arg} :
                    /\ getAllPropertyMetadata(u)' = getAllPropertyMetadata(u)
                    /\ StoredProperties(u)' = StoredProperties(u)
             /\ componentMetadataMap' = componentMetadataMap
             /\ getAllRegisteredComponentTypes' = getAllRegisteredComponentTypes
             /\ registrations' = registrations]_vars
    /\ [][\A t \in ComponentTypes :
             (~has(t) /\ has(t)') =>
                 /\ last'.op \in {"register", "install",
                                  "discoverAndRegisterComponents"}
                 /\ t \in Range(RegisterCalls)
                 /\ hasComponentMetadata(t)]_vars
    /\ [][last'.op = "clear" => \A t \in ComponentTypes : ~has(t)']_vars
    /\ [](\A t \in ComponentTypes :
             has(t) => hasComponentMetadata(t) /\ t \in DOMAIN hRegOptions)

\* C17 witness: @component was just applied to B while A is registered: B
\* has a descriptor and is listed, and is not registered
C17_Witness ==
    /\ last = [op |-> "component", arg |-> "B"]
    /\ has("A")
    /\ hasComponentMetadata("B")
    /\ "B" \in Range(getAllRegisteredComponentTypes)
    /\ ~has("B")

\* C18: clearAllMetadata() empties the declared-types listing and leaves
\* every descriptor and property Map as it is; no step ever removes a
\* descriptor; register(T) of a T that has a descriptor makes has(T) true
\* also when T is not listed; discoverAndRegisterComponents() right after
\* clearAllMetadata() changes no Registration; a type enters the listing only
\* by a @component applied to it.
C18_ClearAllMetadataKeepsDescriptors ==
    /\ [][last'.op = "clearAllMetadata" =>
             /\ getAllRegisteredComponentTypes' = <<>>
             /\ \A t \in ComponentTypes :
                    /\ hasComponentMetadata(t)' = hasComponentMetadata(t)
                    /\ getComponentMetadata(t)' = getComponentMetadata(t)
                    /\ getAllPropertyMetadata(t)' = getAllPropertyMetadata(t)
                    /\ StoredProperties(t)' = StoredProperties(t)]_vars
    /\ [][\A t \in ComponentTypes :
             hasComponentMetadata(t) => hasComponentMetadata(t)']_vars
    /\ [](\A t \in ComponentTypes :
             (last = [op |-> "register", arg |-> t] /\ t \in EverDeclared) =>
                 /\ has(t)
                 /\ Some(get(t)[1].metadata) = getComponentMetadata(t))
    /\ [][(last.op = "clearAllMetadata"
             /\ last'.op = "discoverAndRegisterComponents") =>
                 registrations' = registrations]_vars
    /\ [][\A t \in ComponentTypes :
             (t \notin Range(getAllRegisteredComponentTypes)
                 /\ t \in Range(getAllRegisteredComponentTypes')) =>
                     last' = [op |-> "component", arg |-> t]]_vars

\* C18 witness: A was declared, the listing was emptied, and register(A) was
\* called: A is registered while it is not listed
C18_Witness ==
    /\ last = [op |-> "register", arg |-> "A"]
    /\ getAllRegisteredComponentTypes = <<>>
    /\ hasComponentMetadata("A")
    /\ has("A")

====
